---- MODULE Spec2Model ----
(***************************************************************************)
(* A model of Lib/fontbakery/callable.py: the callable wrapper and its     *)
(* argument contract (FontbakeryCallable), the check definition            *)
(* (FontBakeryCheck, get_doc_desc) and the condition registrar (condition).*)
(*                                                                         *)
(* Python values are records [kind, val]; a str is its sequence of         *)
(* characters, an instance __dict__ is a function from attribute names.    *)
(***************************************************************************)
EXTENDS Integers, Sequences, FiniteSets, TLC

VARIABLES
    wrappers,   \* wrapper id -> the instance __dict__ of that FontbakeryCallable
    globals,    \* module name -> that module's global namespace (name -> value)
    injected,   \* history: wrapper id -> the mapping of its latest inject_globals
    binder,     \* history: module -> name -> the wrapper whose injection bound it last
    result,     \* the latest invocation: [by: wrapper id, names: what it resolved]
    construct,  \* the latest FontBakeryCheck(...) call: its arguments and outcome
    classes,    \* class name -> its class-level attributes (name -> function)
    decorators, \* the classes condition() has returned a decorator for
    instances,  \* instance id -> its __dict__ (the cached_property cache)
    executed,   \* history: instance id -> function -> times the function ran
    reads,      \* history: instance id -> the values its reads returned, in order
    raised      \* the exception the latest condition() call raised, or NoError

vars == <<wrappers, globals, injected, binder, result, construct,
          classes, decorators, instances, executed, reads, raised>>

----------------------------------------------------------------------------
(* Python values *)

PyNone == [kind |-> "NoneType", val |-> <<>>]
PyStr(s) == [kind |-> "str", val |-> s]
PyTuple(t) == [kind |-> "tuple", val |-> t]
PyList(l) == [kind |-> "list", val |-> l]
PyBool(b) == [kind |-> "bool", val |-> b]
PyInt(i) == [kind |-> "int", val |-> i]

\* Python's truth value of x (what `not x` and `x or y` test).
Truthy(x) ==
    CASE x.kind = "NoneType" -> FALSE
      [] x.kind = "bool" -> x.val
      [] x.kind = "int" -> x.val # 0
      [] OTHER -> x.val # <<>>

EmptyDict == [k \in {} |-> PyNone]

\* No exception: the call returned.
NoError == [type |-> "NoError", msg |-> <<>>]

\* dict.update: d with the items of new written over it.
DictUpdate(d, new) == new @@ d

----------------------------------------------------------------------------
(* Signatures: inspect.signature(self, follow_wrapped=True) *)

MaxParams == 4

ParamNames == <<"a", "b", "c", "d", "e", "f">>

Kinds == {"POSITIONAL_ONLY", "POSITIONAL_OR_KEYWORD", "VAR_POSITIONAL",
          "KEYWORD_ONLY", "VAR_KEYWORD"}

KindRank == [k \in Kinds |->
    CASE k = "POSITIONAL_ONLY" -> 0
      [] k = "POSITIONAL_OR_KEYWORD" -> 1
      [] k = "VAR_POSITIONAL" -> 2
      [] k = "KEYWORD_ONLY" -> 3
      [] OTHER -> 4]

Positional == {"POSITIONAL_ONLY", "POSITIONAL_OR_KEYWORD"}

Variadic == {"VAR_POSITIONAL", "VAR_KEYWORD"}

\* The signatures Python accepts: kinds in order, one collector of each sort,
\* no default on a collector, no positional without default after one with.
ValidSignature(sig) ==
    /\ \A i, j \in 1..Len(sig) :
          i < j => /\ KindRank[sig[i].kind] <= KindRank[sig[j].kind]
                   /\ (sig[i].kind \in Variadic => sig[i].kind # sig[j].kind)
                   /\ (/\ sig[i].kind \in Positional
                       /\ sig[j].kind \in Positional
                       /\ sig[i].hasDefault) => sig[j].hasDefault
    /\ \A i \in 1..Len(sig) : sig[i].kind \in Variadic => ~sig[i].hasDefault

Param(n, k, d) == [name |-> n, kind |-> k, hasDefault |-> d]

RECURSIVE SignaturesOfLen(_)
\* The valid signatures of n parameters: each a valid one of n - 1 parameters
\* and one more parameter (every prefix of a valid signature is valid).
SignaturesOfLen(n) ==
    IF n = 0 THEN {<<>>}
    ELSE { sig \in { Append(s, Param(ParamNames[n], kd[1], kd[2])) :
                        s \in SignaturesOfLen(n - 1), kd \in Kinds \X BOOLEAN } :
             ValidSignature(sig) }

Signatures == UNION { SignaturesOfLen(n) : n \in 0..MaxParams }

\* (a, b, c=1, d=2), (a, *, b) and (a, b=1)
SigABCD == << Param("a", "POSITIONAL_OR_KEYWORD", FALSE),
              Param("b", "POSITIONAL_OR_KEYWORD", FALSE),
              Param("c", "POSITIONAL_OR_KEYWORD", TRUE),
              Param("d", "POSITIONAL_OR_KEYWORD", TRUE) >>

SigAStarB == << Param("a", "POSITIONAL_OR_KEYWORD", FALSE),
                Param("b", "KEYWORD_ONLY", FALSE) >>

SigAB == << Param("a", "POSITIONAL_OR_KEYWORD", FALSE),
            Param("b", "POSITIONAL_OR_KEYWORD", TRUE) >>

\* A function object: its __name__, __module__, __doc__, signature and __dict__.
Function(n, m, doc, sig, attrs) ==
    [name |-> n, module |-> m, doc |-> doc, sig |-> sig, attrs |-> attrs]

signature(self) == self["__wrapped__"].sig

----------------------------------------------------------------------------
(* FontbakeryCallable *)

\* functools.update_wrapper(self, func): the assigned attributes, then
\* self.__dict__.update(func.__dict__), then __wrapped__.
update_wrapper(self, func) ==
    LET assigned == ("__module__" :> PyStr(<<func.module>>))
                    @@ ("__name__" :> PyStr(<<func.name>>))
                    @@ ("__doc__" :> func.doc)
        d1 == DictUpdate(self, assigned)
        d2 == DictUpdate(d1, func.attrs)
    IN  DictUpdate(d2, "__wrapped__" :> func)

FontbakeryCallable_init(func) ==
    LET self == ("_args" :> PyNone) @@ ("_mandatoryArgs" :> PyNone)
                @@ ("_optionalArgs" :> PyNone)
    IN  update_wrapper(self, func)

RECURSIVE mandatoryLoop(_, _, _)
mandatoryLoop(sig, i, acc) ==
    IF i > Len(sig) THEN acc
    ELSE IF sig[i].hasDefault \/ sig[i].kind \notin Positional
         THEN acc   \* break
         ELSE mandatoryLoop(sig, i + 1, Append(acc, sig[i].name))

\* The mandatoryArgs loop without its test of the parameter's kind.
RECURSIVE mandatoryLoopAnyKind(_, _, _)
mandatoryLoopAnyKind(sig, i, acc) ==
    IF i > Len(sig) THEN acc
    ELSE IF sig[i].hasDefault
         THEN acc
         ELSE mandatoryLoopAnyKind(sig, i + 1, Append(acc, sig[i].name))

mandatoryArgsAnyKind(self) == PyTuple(mandatoryLoopAnyKind(signature(self), 1, <<>>))

\* The body of the mandatoryArgs property.
mandatoryArgs(self) == PyTuple(mandatoryLoop(signature(self), 1, <<>>))

RECURSIVE optionalLoop(_, _, _)
optionalLoop(sig, i, acc) ==
    IF i > Len(sig) THEN acc
    ELSE IF ~sig[i].hasDefault
         THEN optionalLoop(sig, i + 1, acc)   \* continue
         ELSE IF sig[i].kind \notin Positional
              THEN acc   \* break
              ELSE optionalLoop(sig, i + 1, Append(acc, sig[i].name))

\* The body of the optionalArgs property.
optionalArgs(self) == PyTuple(optionalLoop(signature(self), 1, <<>>))

\* Reading a cached_property (a non-data descriptor): the instance __dict__
\* wins; otherwise the body runs and its value is stored in the __dict__.
\* Each operator gives the __dict__ after the read; the value read is its entry.
get_mandatoryArgs(self) ==
    IF "mandatoryArgs" \in DOMAIN self THEN self
    ELSE DictUpdate(self, "mandatoryArgs" :> mandatoryArgs(self))

get_optionalArgs(self) ==
    IF "optionalArgs" \in DOMAIN self THEN self
    ELSE DictUpdate(self, "optionalArgs" :> optionalArgs(self))

\* The body of the args property, on the __dict__ left by its two reads.
args(self) == PyTuple(self["mandatoryArgs"].val \o self["optionalArgs"].val)

get_args(self) ==
    IF "args" \in DOMAIN self THEN self
    ELSE LET d == get_optionalArgs(get_mandatoryArgs(self))
         IN  DictUpdate(d, "args" :> args(d))

\* The value a read of the attribute returns in the current state.
Attr(w, a) ==
    CASE a = "mandatoryArgs" -> get_mandatoryArgs(wrappers[w])[a].val
      [] a = "optionalArgs" -> get_optionalArgs(wrappers[w])[a].val
      [] OTHER -> get_args(wrappers[w])[a].val

\* self.__wrapped__.__globals__: the name of the module whose namespace it is.
module(self) == self["__wrapped__"].module

\* The injection with setdefault semantics: names already bound keep their value.
inject_globals_keep(self, new_globals) ==
    [globals EXCEPT ![module(self)] = DictUpdate(new_globals, @)]

\* inject_globals: the namespaces after self.__wrapped__.__globals__.update(new_globals).
inject_globals(self, new_globals) ==
    [globals EXCEPT ![module(self)] = DictUpdate(@, new_globals)]

\* The invocable run against a namespace of its own, which no injection reaches.
call_detached(self) == EmptyDict

\* The wrapped invocables read global names: a call returns what each name
\* the namespace binds resolves to (an unbound name is a NameError, left out).
call(self) == globals[module(self)]

----------------------------------------------------------------------------
(* str methods, on sequences of characters *)

RECURSIVE splitLoop(_, _, _, _)
splitLoop(s, i, line, lines) ==
    IF i > Len(s) THEN Append(lines, line)
    ELSE IF s[i] = "\n"
         THEN splitLoop(s, i + 1, <<>>, Append(lines, line))
         ELSE splitLoop(s, i + 1, Append(line, s[i]), lines)

\* s.split("\n")
split(s) == splitLoop(s, 1, <<>>, <<>>)

RECURSIVE join(_, _)
\* sep.join(lines)
join(sep, lines) ==
    IF lines = <<>> THEN <<>>
    ELSE IF Len(lines) = 1 THEN lines[1]
         ELSE lines[1] \o sep \o join(sep, Tail(lines))

RECURSIVE lstrip(_)
\* line.lstrip()
lstrip(line) ==
    IF line # <<>> /\ line[1] = " " THEN lstrip(Tail(line)) ELSE line

\* line[n:]
DropFirst(line, n) == SubSeq(line, n + 1, Len(line))

RECURSIVE dropTrailingBlank(_)
dropTrailingBlank(lines) ==
    IF lines # <<>> /\ lines[Len(lines)] = <<>>
    THEN dropTrailingBlank(SubSeq(lines, 1, Len(lines) - 1))
    ELSE lines

RECURSIVE dropLeadingBlank(_)
dropLeadingBlank(lines) ==
    IF lines # <<>> /\ lines[1] = <<>> THEN dropLeadingBlank(Tail(lines)) ELSE lines

\* inspect.cleandoc: the margin common to the lines after the first is removed,
\* the first line loses its leading blanks, blank lines at both ends are dropped.
cleandoc(doc) ==
    LET lines == split(doc)
        indents == { Len(lines[i]) - Len(lstrip(lines[i])) :
                        i \in { j \in 2..Len(lines) : lstrip(lines[j]) # <<>> } }
        stripped == [i \in 1..Len(lines) |->
                        IF i = 1 THEN lstrip(lines[i])
                        ELSE IF indents = {} THEN lines[i]
                        ELSE DropFirst(lines[i],
                                 CHOOSE m \in indents : \A k \in indents : m <= k)]
    IN  join(<<"\n">>, dropLeadingBlank(dropTrailingBlank(stripped)))

\* inspect.getdoc(func): None without a docstring, else the cleaned docstring.
getdoc(func) ==
    IF func.doc.kind = "str" THEN PyStr(cleandoc(func.doc.val)) ELSE PyNone

----------------------------------------------------------------------------
(* get_doc_desc and FontBakeryCheck *)

RECURSIVE leadingLines(_)
\* The lines the `while len(doclines) and doclines[0]` loop consumes.
leadingLines(doclines) ==
    IF doclines # <<>> /\ doclines[1] # <<>>
    THEN <<doclines[1]>> \o leadingLines(Tail(doclines))
    ELSE <<>>

\* The documentation taken from the whole docstring, the description block included.
get_doc_desc_whole_doc(func, description, documentation) ==
    LET doc == IF Truthy(getdoc(func)) THEN getdoc(func).val ELSE <<>>
        doclines == split(doc)
        derive == ~Truthy(description)
        consumed == IF derive THEN leadingLines(doclines) ELSE <<>>
        rest == dropLeadingBlank(doclines)
    IN  << IF derive THEN PyStr(join(<<" ">>, consumed)) ELSE description,
           IF ~Truthy(documentation) /\ rest # <<>>
           THEN (IF join(<<"\n">>, rest) # <<>> THEN PyStr(join(<<"\n">>, rest)) ELSE PyNone)
           ELSE documentation >>

\* The description joined with line breaks, as the documentation is.
get_doc_desc_line_breaks(func, description, documentation) ==
    LET doc == IF Truthy(getdoc(func)) THEN getdoc(func).val ELSE <<>>
        doclines == split(doc)
        derive == ~Truthy(description)
        consumed == IF derive THEN leadingLines(doclines) ELSE <<>>
        rest == dropLeadingBlank(DropFirst(doclines, Len(consumed)))
    IN  << IF derive THEN PyStr(join(<<"\n">>, consumed)) ELSE description,
           IF ~Truthy(documentation) /\ rest # <<>>
           THEN (IF join(<<"\n">>, rest) # <<>> THEN PyStr(join(<<"\n">>, rest)) ELSE PyNone)
           ELSE documentation >>

\* get_doc_desc: the pair <<description, documentation>> it returns.
get_doc_desc(func, description, documentation) ==
    LET doc == IF Truthy(getdoc(func)) THEN getdoc(func).val ELSE <<>>
        doclines == split(doc)
        derive == ~Truthy(description)
        consumed == IF derive THEN leadingLines(doclines) ELSE <<>>
        rest == dropLeadingBlank(DropFirst(doclines, Len(consumed)))
    IN  << IF derive THEN PyStr(join(<<" ">>, consumed)) ELSE description,
           IF ~Truthy(documentation) /\ rest # <<>>
           THEN (IF join(<<"\n">>, rest) # <<>> THEN PyStr(join(<<"\n">>, rest)) ELSE PyNone)
           ELSE documentation >>

\* A keyword argument of the constructor, or its default.
Arg(kwds, key, default) == IF key \in DOMAIN kwds THEN kwds[key] ELSE default

ClassName == "FontBakeryCheck"

NeedsDescription == [type |-> "TypeError", msg |-> <<ClassName, " needs a description.">>]

\* The constructor without its final test of the description.
FontBakeryCheck_init_unvalidated(checkfunc, kwds) ==
    LET dd == get_doc_desc(checkfunc, Arg(kwds, "description", PyNone),
                           Arg(kwds, "documentation", PyNone))
    IN  [self |-> DictUpdate(FontbakeryCallable_init(checkfunc),
                      ("id" :> kwds["id"]) @@ ("description" :> dd[1])
                      @@ ("documentation" :> dd[2])),
         raised |-> NoError]

\* FontBakeryCheck.__init__(self, checkfunc, **kwds): the instance __dict__ it
\* leaves and the exception it raises (NoError when it returns).
FontBakeryCheck_init(checkfunc, kwds) ==
    LET conditions == Arg(kwds, "conditions", PyNone)
        dd == get_doc_desc(checkfunc, Arg(kwds, "description", PyNone),
                           Arg(kwds, "documentation", PyNone))
        self == DictUpdate(FontbakeryCallable_init(checkfunc),
                    ("id" :> kwds["id"])
                    @@ ("conditions" :> IF Truthy(conditions) THEN conditions ELSE PyList(<<>>))
                    @@ ("rationale" :> Arg(kwds, "rationale", PyNone))
                    @@ ("description" :> dd[1])
                    @@ ("documentation" :> dd[2])
                    @@ ("configs" :> Arg(kwds, "configs", PyNone))
                    @@ ("proposal" :> Arg(kwds, "proposal", PyNone))
                    @@ ("experimental" :> Arg(kwds, "experimental", PyBool(FALSE)))
                    @@ ("severity" :> Arg(kwds, "severity", PyNone)))
    IN  [self |-> self,
         raised |-> IF ~Truthy(self["description"]) THEN NeedsDescription ELSE NoError]

----------------------------------------------------------------------------
(* The wrappers of a profile: argument contracts, injection, invocation *)

MaxWrappers == 2

Modules == {"m1", "m2"}

Names == {"hello"}

Values == {PyInt(42), PyInt(7)}

\* The mappings a caller injects: name -> value, over any non-empty set of names.
Mappings == UNION { [ns -> Values] : ns \in (SUBSET Names) \ {{}} }

NoDoc == PyNone

\* The invocables wrapped: a plain one, and ones carrying attributes of their own.
Invocables ==
    << Function("check_a", "m1", NoDoc, SigAB, EmptyDict),
       Function("check_b", "m1", NoDoc, SigAStarB, "args" :> PyTuple(<<"zzz">>)),
       Function("check_c", "m2", NoDoc, SigAB, "mandatoryArgs" :> PyTuple(<<"b">>)) >>

NoCall == [by |-> 0, names |-> EmptyDict]

NoConstruct == [done |-> FALSE]

\* The variables of the check constructor and of the condition registrar, idle.
IdleDefinitions ==
    /\ construct = NoConstruct
    /\ classes = EmptyDict
    /\ decorators = {}
    /\ instances = <<>>
    /\ executed = <<>>
    /\ reads = <<>>
    /\ raised = NoError

IdleNamespaces ==
    /\ globals = [m \in Modules |-> EmptyDict]
    /\ injected = [w \in DOMAIN wrappers |-> EmptyDict]
    /\ binder = [m \in Modules |-> EmptyDict]
    /\ result = NoCall

\* Any invocable may be wrapped by any wrapper, and more than once. Wrapper
\* ids are interchangeable: the choices are taken in non-decreasing order.
Init ==
    /\ \E c \in [1..MaxWrappers -> DOMAIN Invocables] :
          /\ \A v, w \in 1..MaxWrappers : v < w => c[v] <= c[w]
          /\ wrappers = [w \in 1..MaxWrappers |-> FontbakeryCallable_init(Invocables[c[w]])]
    /\ IdleNamespaces
    /\ IdleDefinitions

ReadMandatoryArgs(w) ==
    /\ wrappers' = [wrappers EXCEPT ![w] = get_mandatoryArgs(@)]
    /\ UNCHANGED <<globals, injected, binder, result, construct,
                   classes, decorators, instances, executed, reads, raised>>

ReadOptionalArgs(w) ==
    /\ wrappers' = [wrappers EXCEPT ![w] = get_optionalArgs(@)]
    /\ UNCHANGED <<globals, injected, binder, result, construct,
                   classes, decorators, instances, executed, reads, raised>>

ReadArgs(w) ==
    /\ wrappers' = [wrappers EXCEPT ![w] = get_args(@)]
    /\ UNCHANGED <<globals, injected, binder, result, construct,
                   classes, decorators, instances, executed, reads, raised>>

InjectGlobals(w, new_globals) ==
    /\ globals' = inject_globals(wrappers[w], new_globals)
    /\ injected' = [injected EXCEPT ![w] = new_globals]
    /\ binder' = [binder EXCEPT ![module(wrappers[w])] =
                     DictUpdate(@, [n \in DOMAIN new_globals |-> w])]
    /\ UNCHANGED <<wrappers, result, construct,
                   classes, decorators, instances, executed, reads, raised>>

Call(w) ==
    /\ result' = [by |-> w, names |-> call(wrappers[w])]
    /\ UNCHANGED <<wrappers, globals, injected, binder, construct,
                   classes, decorators, instances, executed, reads, raised>>

Next ==
    \/ \E w \in DOMAIN wrappers : ReadMandatoryArgs(w)
    \/ \E w \in DOMAIN wrappers : ReadOptionalArgs(w)
    \/ \E w \in DOMAIN wrappers : ReadArgs(w)
    \/ \E w \in DOMAIN wrappers, new_globals \in Mappings : InjectGlobals(w, new_globals)
    \/ \E w \in DOMAIN wrappers : Call(w)

Spec == Init /\ [][Next]_vars

----------------------------------------------------------------------------
(* One wrapper around a plain invocable of any valid signature *)

InitArgs ==
    /\ wrappers \in [{1} -> { FontbakeryCallable_init(Function("check", "m1", NoDoc, sig, EmptyDict)) :
                                 sig \in Signatures }]
    /\ IdleNamespaces
    /\ IdleDefinitions

NextArgs ==
    \/ \E w \in DOMAIN wrappers : ReadMandatoryArgs(w)
    \/ \E w \in DOMAIN wrappers : ReadOptionalArgs(w)
    \/ \E w \in DOMAIN wrappers : ReadArgs(w)

SpecArgs == InitArgs /\ [][NextArgs]_vars

----------------------------------------------------------------------------
(* Check definitions: FontBakeryCheck(checkfunc, id, ...) *)

MaxDocLen == 4

Chars == {"a", "b", " ", "\n"}

\* The docstrings of the invocables: none, or any text up to MaxDocLen characters.
Docstrings ==
    {PyNone} \cup { PyStr(s) : s \in UNION { [1..n -> Chars] : n \in 0..MaxDocLen } }

CheckFuncs ==
    { Function("check_something", "m1", doc, SigAB, EmptyDict) : doc \in Docstrings }

DescriptionArgs ==
    { EmptyDict, "description" :> PyStr(<<>>), "description" :> PyStr(<<"X">>) }

DocumentationArgs ==
    { EmptyDict, "documentation" :> PyStr(<<>>), "documentation" :> PyStr(<<"D">>) }

AllMetadata ==
    ("name" :> PyStr(<<"short name">>))
    @@ ("conditions" :> PyList(<<"isVariableFont">>))
    @@ ("rationale" :> PyStr(<<"why">>))
    @@ ("proposal" :> PyStr(<<"https://example.com/issue">>))
    @@ ("experimental" :> PyBool(TRUE))
    @@ ("severity" :> PyInt(7))
    @@ ("configs" :> PyList(<<"hello">>))
    @@ ("misc_metadata" :> [kind |-> "dict", val |-> <<"affects">>])

SomeMetadata ==
    ("conditions" :> PyList(<<>>))
    @@ ("experimental" :> PyBool(FALSE))
    @@ ("severity" :> PyInt(1))

MetadataArgs == { EmptyDict, SomeMetadata, AllMetadata }

Keywords ==
    { ("id" :> PyStr(<<"com.example/check">>)) @@ d @@ c @@ o :
        d \in DescriptionArgs, c \in DocumentationArgs, o \in MetadataArgs }

\* check(**kwds)(checkfunc): the decorator holds its arguments, then runs
\* FontBakeryCheck(checkfunc, **kwds). `returned` is the object the caller
\* gets, PyNone when __init__ raised and the call yields no object.
Constructed(checkfunc, kwds) ==
    LET r == FontBakeryCheck_init(checkfunc, kwds)
    IN  [done |-> TRUE, checkfunc |-> checkfunc, kwds |-> kwds,
         self |-> r.self, raised |-> r.raised,
         returned |-> IF r.raised = NoError
                      THEN [kind |-> ClassName, val |-> r.self]
                      ELSE PyNone]

ConstructCheck ==
        /\ ~construct.done
        /\ construct' = Constructed(construct.checkfunc, construct.kwds)
        /\ UNCHANGED <<wrappers, globals, injected, binder, result,
                       classes, decorators, instances, executed, reads, raised>>

InitCheck ==
    /\ wrappers = <<>>
    /\ IdleNamespaces
    /\ construct \in [done : {FALSE}, checkfunc : CheckFuncs, kwds : Keywords]
    /\ classes = EmptyDict
    /\ decorators = {}
    /\ instances = <<>>
    /\ executed = <<>>
    /\ reads = <<>>
    /\ raised = NoError

NextCheck == ConstructCheck

SpecCheck == InitCheck /\ [][NextCheck]_vars

----------------------------------------------------------------------------
(* Conditions: condition(cls) and the decorator it returns *)

MaxInstances == 2

MaxExecutions == 2

Classes == {"Namespace", "Other"}

\* What condition() is called on: a class, an instance of one, a function.
Targets ==
    { [kind |-> "class", name |-> c] : c \in Classes }
    \cup { [kind |-> "instance", name |-> "Namespace"],
           [kind |-> "function", name |-> "is_ttf"] }

\* inspect.isclass(cls)
isclass(cls) == cls.kind = "class"

\* cls.__name__: classes and functions have one, an instance of a class does not.
HasName(cls) == cls.kind \in {"class", "function"}

\* The condition functions: two definitions of isVariableFont.
CondFuncs == { [id |-> "f1", name |-> "isVariableFont"],
               [id |-> "f2", name |-> "isVariableFont"] }

\* condition(cls): the exception it raises, or the class its decorator closes over.
\* The TypeError's message reads cls.__name__, which itself raises when the
\* target has no such attribute.
condition(cls) ==
    IF ~isclass(cls)
    THEN IF HasName(cls)
         THEN [raised |-> [type |-> "TypeError",
                           msg |-> <<"Condition ", cls.name, " must be added to a class">>],
               decorator |-> {}]
         ELSE [raised |-> [type |-> "AttributeError",
                           msg |-> <<cls.name, " object has no attribute ", "__name__">>],
               decorator |-> {}]
    ELSE [raised |-> NoError, decorator |-> {cls.name}]

\* decorator(func): setattr(cls, func.__name__, cached_property(func)).
decorator(cls, func) ==
    [classes EXCEPT ![cls] = DictUpdate(@, func.name :> func.id)]

\* A plain property: the value is computed and not stored.
property_get(cache, attrname, val) == cache

\* cached_property.__get__ after the function ran: cache[attrname] = val.
cached_property_get(cache, attrname, val) == DictUpdate(cache, attrname :> val)

ClassOf(i) == "Namespace"

Condition(cls) ==
    /\ raised' = condition(cls).raised
    /\ decorators' = decorators \cup condition(cls).decorator
    /\ UNCHANGED <<wrappers, globals, injected, binder, result, construct,
                   classes, instances, executed, reads>>

Decorate(cls, func) ==
    /\ cls \in decorators
    /\ classes' = decorator(cls, func)
    /\ UNCHANGED <<wrappers, globals, injected, binder, result, construct,
                   decorators, instances, executed, reads, raised>>

\* The value v returned by a read of instance i's attribute, recorded.
Record(i, attrname, v) ==
    [reads EXCEPT ![i] =
        IF attrname \in DOMAIN @
        THEN DictUpdate(@, attrname :> [first |-> @[attrname].first, last |-> v])
        ELSE DictUpdate(@, attrname :> [first |-> v, last |-> v])]

\* A read of instance.attrname that finds the value in the instance __dict__.
ReadCached(i, attrname) ==
    /\ attrname \in DOMAIN instances[i]
    /\ reads' = Record(i, attrname, instances[i][attrname])
    /\ UNCHANGED <<wrappers, globals, injected, binder, result, construct,
                   classes, decorators, instances, executed, raised>>

\* A read of instance.attrname that reaches the class's cached_property: the
\* function runs, returns some value v, and the value is cached.
ReadComputed(i, attrname, v) ==
    /\ attrname \notin DOMAIN instances[i]
    /\ attrname \in DOMAIN classes[ClassOf(i)]
    /\ LET f == classes[ClassOf(i)][attrname]
       IN  /\ executed[i][f] < MaxExecutions
           /\ executed' = [executed EXCEPT ![i][f] = @ + 1]
    /\ instances' = [instances EXCEPT ![i] = cached_property_get(@, attrname, v)]
    /\ reads' = Record(i, attrname, v)
    /\ UNCHANGED <<wrappers, globals, injected, binder, result, construct,
                   classes, decorators, raised>>

SampleCheck ==
    Constructed(Function("check_something", "m1", PyStr(<<"a">>), SigAB, EmptyDict),
                ("id" :> PyStr(<<"com.example/check">>)) @@ AllMetadata)

InitCond ==
    /\ wrappers = <<>>
    /\ IdleNamespaces
    /\ construct = SampleCheck
    /\ classes = [c \in Classes |-> EmptyDict]
    /\ decorators = {}
    /\ instances = [i \in 1..MaxInstances |-> EmptyDict]
    /\ executed = [i \in 1..MaxInstances |-> [f \in { g.id : g \in CondFuncs } |-> 0]]
    /\ reads = [i \in 1..MaxInstances |-> EmptyDict]
    /\ raised = NoError

NextCond ==
    \/ \E cls \in Targets : Condition(cls)
    \/ \E cls \in Classes, func \in CondFuncs : Decorate(cls, func)
    \/ \E i \in DOMAIN instances, func \in CondFuncs : ReadCached(i, func.name)
    \/ \E i \in DOMAIN instances, func \in CondFuncs, v \in BOOLEAN :
          ReadComputed(i, func.name, PyBool(v))

SpecCond == InitCond /\ [][NextCond]_vars

----------------------------------------------------------------------------
(* C1 *)

PositionalNoDefault(p) == p.kind \in Positional /\ ~p.hasDefault

PositionalWithDefault(p) == p.kind \in Positional /\ p.hasDefault

NamesOf(params) == [i \in 1..Len(params) |-> params[i].name]

\* The longest leading run of positional parameters without default.
LeadingRun(sig) ==
    LET k == CHOOSE k \in 0..Len(sig) :
                 /\ \A i \in 1..k : PositionalNoDefault(sig[i])
                 /\ k = Len(sig) \/ ~PositionalNoDefault(sig[k + 1])
    IN  NamesOf(SubSeq(sig, 1, k))

Range(s) == { s[i] : i \in 1..Len(s) }

\* C1: for every valid signature, mandatoryArgs is the longest leading run of
\* positional parameters without default and optionalArgs is the positional
\* parameters with a default, both in declaration order; a keyword-only or
\* variadic parameter is in neither.
C1_ArgumentContract ==
    \A w \in DOMAIN wrappers :
        LET sig == signature(wrappers[w])
        IN  /\ Attr(w, "mandatoryArgs") = LeadingRun(sig)
            /\ Attr(w, "optionalArgs") = NamesOf(SelectSeq(sig, PositionalWithDefault))
            /\ \A i \in 1..Len(sig) :
                  sig[i].kind \notin Positional =>
                      sig[i].name \notin Range(Attr(w, "mandatoryArgs"))
                                         \cup Range(Attr(w, "optionalArgs"))

\* Both properties of a wrapper around (a, b, c=1, d=2) have been read.
C1_Witness ==
    \E w \in DOMAIN wrappers :
        /\ signature(wrappers[w]) = SigABCD
        /\ {"mandatoryArgs", "optionalArgs"} \subseteq DOMAIN wrappers[w]
        /\ wrappers[w]["mandatoryArgs"].val = <<"a", "b">>
        /\ wrappers[w]["optionalArgs"].val = <<"c", "d">>

----------------------------------------------------------------------------
(* C2 *)

\* C2: for every wrapper, whatever its invocable carries and whatever was read,
\* injected or invoked, args is mandatoryArgs followed by optionalArgs and no
\* name is in both.
C2_ArgsIsConcatenation ==
    \A w \in DOMAIN wrappers :
        /\ Attr(w, "args") = Attr(w, "mandatoryArgs") \o Attr(w, "optionalArgs")
        /\ Range(Attr(w, "mandatoryArgs")) \cap Range(Attr(w, "optionalArgs")) = {}

----------------------------------------------------------------------------
(* C7 *)

\* inject_globals leaves what a read of each argument property returns as it
\* was (a wrapper whose attributes are untouched returns what it returned).
InjectionKeepsContract ==
    \A w \in DOMAIN wrappers, new_globals \in Mappings :
        InjectGlobals(w, new_globals) =>
            \A v \in DOMAIN wrappers, a \in {"args", "mandatoryArgs", "optionalArgs"} :
                \/ wrappers'[v] = wrappers[v]
                \/ Attr(v, a)' = Attr(v, a)

\* C7 as stated: after inject_globals(mapping) on a wrapper, every later
\* invocation of that wrapper resolves each name of the mapping to the mapped
\* value, and the injection leaves mandatoryArgs, optionalArgs and args unchanged.
C7_EveryLaterInvocation ==
    [][ /\ \A w \in DOMAIN wrappers :
             Call(w) => \A n \in DOMAIN injected[w] :
                            /\ n \in DOMAIN result'.names
                            /\ result'.names[n] = injected[w][n]
        /\ InjectionKeepsContract ]_vars

\* C7 amended: an invocation of the wrapper resolves each name of its latest
\* mapping to the mapped value as long as no later inject_globals on a wrapper
\* of the same module has bound that name again; the frame part as stated.
C7_UntilRebound ==
    [][ /\ \A w \in DOMAIN wrappers :
             Call(w) => \A n \in DOMAIN injected[w] :
                            binder[module(wrappers[w])][n] = w =>
                                /\ n \in DOMAIN result'.names
                                /\ result'.names[n] = injected[w][n]
        /\ InjectionKeepsContract ]_vars

\* A wrapper whose contract was read before its injection is invoked after it,
\* its binding still in place, and resolves the name to the injected value.
C7_Witness ==
    \E w \in DOMAIN wrappers :
        /\ result.by = w
        /\ "hello" \in DOMAIN injected[w]
        /\ binder[module(wrappers[w])]["hello"] = w
        /\ "hello" \in DOMAIN result.names
        /\ result.names["hello"] = injected[w]["hello"]
        /\ "args" \in DOMAIN wrappers[w]

----------------------------------------------------------------------------
(* C10 *)

\* C10: the namespace inject_globals writes is the defining module's, shared by
\* all wrappers of that module: an invocation of any of them resolves each
\* injected name to the value of the most recent injection into the module,
\* whichever wrapper made it.
C10_SharedNamespace ==
    [][ \A b \in DOMAIN wrappers :
            Call(b) => \A n \in DOMAIN binder[module(wrappers[b])] :
                           LET a == binder[module(wrappers[b])][n]
                           IN  /\ module(wrappers[a]) = module(wrappers[b])
                               /\ n \in DOMAIN result'.names
                               /\ result'.names[n] = injected[a][n] ]_vars

\* A and B of one module injected different values for a name, B last; A is
\* invoked and sees B's value.
C10_Witness ==
    \E a, b \in DOMAIN wrappers :
        /\ a # b
        /\ module(wrappers[a]) = module(wrappers[b])
        /\ "hello" \in DOMAIN injected[a] \cap DOMAIN injected[b]
        /\ injected[a]["hello"] # injected[b]["hello"]
        /\ binder[module(wrappers[a])]["hello"] = b
        /\ result.by = a
        /\ "hello" \in DOMAIN result.names
        /\ result.names["hello"] = injected[b]["hello"]

----------------------------------------------------------------------------
(* C3 *)

\* The lines of the documentation string, as inspect.getdoc gives it.
DocLines(func) == split(IF Truthy(getdoc(func)) THEN getdoc(func).val ELSE <<>>)

Supplied(key) == key \in DOMAIN construct.kwds

\* The description is not supplied or supplied empty, and the documentation
\* string is empty or starts with an empty line.
NoDescriptionToDerive ==
    /\ construct.done
    /\ ~Truthy(Arg(construct.kwds, "description", PyNone))
    /\ DocLines(construct.checkfunc)[1] = <<>>

\* C3 as stated: a check without description after derivation is refused with
\* a definition error, no object is returned, and the error names the
\* defining invocable.
C3_ErrorNamesInvocable ==
    NoDescriptionToDerive =>
        /\ construct.raised.type = "TypeError"
        /\ construct.returned = PyNone
        /\ construct.checkfunc.name \in Range(construct.raised.msg)

\* C3 amended: such a construction is refused with a TypeError, no object is
\* returned, and the error names the wrapper class, not the invocable.
C3_ErrorNamesClass ==
    NoDescriptionToDerive =>
        /\ construct.raised.type = "TypeError"
        /\ construct.returned = PyNone
        /\ ClassName \in Range(construct.raised.msg)
        /\ construct.checkfunc.name \notin Range(construct.raised.msg)

\* A check with no description and an empty docstring was constructed and refused.
C3_Witness ==
    /\ NoDescriptionToDerive
    /\ ~Supplied("description")
    /\ construct.checkfunc.doc = PyStr(<<>>)
    /\ construct.raised = NeedsDescription

----------------------------------------------------------------------------
(* C4 *)

\* How many lines lead the documentation string before its first empty line.
LeadingCount(lines) ==
    CHOOSE k \in 0..Len(lines) :
        /\ \A i \in 1..k : lines[i] # <<>>
        /\ k = Len(lines) \/ lines[k + 1] = <<>>

\* C4: a description not supplied is the leading non-empty lines of the
\* documentation string, up to its first empty line, joined by single spaces;
\* a description supplied non-empty is kept as it is.
C4_DescriptionDerived ==
    construct.done =>
        LET lines == DocLines(construct.checkfunc)
        IN  /\ ~Supplied("description") =>
                  construct.self["description"] =
                      PyStr(join(<<" ">>, SubSeq(lines, 1, LeadingCount(lines))))
            /\ (Supplied("description") /\ construct.kwds["description"].val # <<>>) =>
                  construct.self["description"] = construct.kwds["description"]

\* A two-line description block was joined into one line.
C4_Witness ==
    /\ construct.done
    /\ ~Supplied("description")
    /\ construct.checkfunc.doc = PyStr(<<"a", "\n", "b">>)
    /\ construct.self["description"] = PyStr(<<"a", " ", "b">>)
    /\ construct.raised = NoError

----------------------------------------------------------------------------
(* C5 *)

\* The lines left after the first k, their leading empty lines dropped, joined
\* by line breaks; None when nothing is left.
Remainder(lines, k) ==
    LET j == CHOOSE j \in k..Len(lines) :
                 /\ \A i \in (k + 1)..j : lines[i] = <<>>
                 /\ j = Len(lines) \/ lines[j + 1] # <<>>
    IN  IF j = Len(lines) THEN PyNone
        ELSE PyStr(join(<<"\n">>, SubSeq(lines, j + 1, Len(lines))))

\* C5 as stated: a documentation not supplied is what remains of the
\* documentation string after its description block, whether or not the
\* description was supplied.
C5_RemainderAfterBlock ==
    (construct.done /\ ~Supplied("documentation")) =>
        LET lines == DocLines(construct.checkfunc)
        IN  construct.self["documentation"] = Remainder(lines, LeadingCount(lines))

\* C5 amended: the description block is removed only when the description was
\* derived (not supplied, or supplied empty); with a description supplied
\* non-empty the documentation is the whole documentation string.
C5_RemainderAfterDerivation ==
    (construct.done /\ ~Supplied("documentation")) =>
        LET lines == DocLines(construct.checkfunc)
            derived == ~Truthy(Arg(construct.kwds, "description", PyNone))
        IN  construct.self["documentation"] =
                Remainder(lines, IF derived THEN LeadingCount(lines) ELSE 0)

\* Both cases happened: a description derived and the rest kept as documentation.
C5_Witness ==
    /\ construct.done
    /\ ~Supplied("documentation")
    /\ ~Supplied("description")
    /\ construct.checkfunc.doc = PyStr(<<"a", "\n", "\n", "b">>)
    /\ construct.self["description"] = PyStr(<<"a">>)
    /\ construct.self["documentation"] = PyStr(<<"b">>)

----------------------------------------------------------------------------
(* C6 *)

\* C6: a constructed check exposes every metadata value passed to the
\* constructor, None (experimental: False, conditions: empty) when not passed.
C6_MetadataExposed ==
    (construct.done /\ construct.raised = NoError) =>
        LET self == construct.self
            kwds == construct.kwds
        IN  /\ \A key \in {"id", "name", "rationale", "proposal", "severity", "configs"} :
                  key \in DOMAIN self /\ self[key] = Arg(kwds, key, PyNone)
            /\ "experimental" \in DOMAIN self
            /\ self["experimental"] = Arg(kwds, "experimental", PyBool(FALSE))
            /\ "conditions" \in DOMAIN self
            /\ self["conditions"] = Arg(kwds, "conditions", PyList(<<>>))
            /\ \E key \in {"miscMetadata", "misc_metadata"} :
                  key \in DOMAIN self /\ self[key] = Arg(kwds, "misc_metadata", PyNone)

----------------------------------------------------------------------------
(* C8 *)

----------------------------------------------------------------------------
(* C9 *)

\* C9: condition() on a target that is not a class fails with a definition
\* error (TypeError) before any function is accepted, installs nothing on any
\* class and leaves registered conditions and constructed checks as they were.
C9_NonClassRefused ==
    [][ \A cls \in Targets :
            (~isclass(cls) /\ Condition(cls)) =>
                /\ raised'.type = "TypeError"
                /\ decorators' = decorators
                /\ classes' = classes
                /\ instances' = instances
                /\ construct' = construct ]_vars

====
